---- MODULE Spec2Model ----
(***************************************************************************)
(* Model of vault.js (Knowledge Vault): link reconciliation (ensureLink),  *)
(* repository discovery (findGitRepos), URL parsing (parseGitUrl) and the  *)
(* commands cmdPull / cmdAdd, over an explicit model of the filesystem.    *)
(*                                                                         *)
(* A file name is a sequence of characters, a path is a sequence of names  *)
(* counted from the filesystem root, and the filesystem is a function from *)
(* the existing paths to their entries.                                    *)
(***************************************************************************)
EXTENDS Integers, Sequences, FiniteSets, TLC

VARIABLES
    fs,        \* the filesystem: existing path |-> entry
    srcDirs,   \* getSrcDirs(env): the configured source roots, in order
    pc,        \* position of the process
    cmd,       \* the command the process runs
    calls,     \* ensureLink calls made so far, each with its outcome
    found,     \* result of the last direct findGitRepos call
    allRepos,  \* cmdPull: the (repoPath, srcDir) pairs collected
    idx,       \* cmdPull: index of the next pair of allRepos
    created,   \* cmdPull: the counter of created links
    trace,     \* git invocations and ensureLink calls of the command, in order
    out,       \* console output so far
    add,       \* cmdAdd: url, override, parsed project path, paths
    exitCode,  \* process exit code, -1 while running
    parseRes,  \* result of the last direct parseGitUrl call
    status,    \* cmdStatus: the repositories listed and the three counters
    history    \* the invocations that ended before this one, oldest first

vars == <<fs, srcDirs, pc, cmd, calls, found, allRepos, idx, created, trace,
          out, add, exitCode, parseRes, status, history>>

----------------------------------------------------------------------------
(* Bounds *)

MaxFollow == 3    \* symbolic links followed in one path resolution
MaxCalls == 2     \* direct ensureLink calls in one behaviour
MaxDirs == 3      \* directories below a generated source root
MaxGit == 3       \* .git markers in a generated source tree

----------------------------------------------------------------------------
(* Names and paths *)

DotGit == <<".", "g", "i", "t">>
NodeModules == <<"n", "o", "d", "e", "_", "m", "o", "d", "u", "l", "e", "s">>
DotDot == <<".", ".">>
Dot == <<".">>

nA == <<"a">>
nB == <<"b">>
nF == <<"f">>
nG == <<"g">>
nH == <<"h">>
nL == <<"l">>
nS == <<"s">>
nT == <<"t">>
nV == <<"v">>
nX == <<"x">>
nZ == <<"z">>
nHid == <<".", "h">>
nGroup == <<"g", "r", "o", "u", "p">>
nProject == <<"p", "r", "o", "j", "e", "c", "t">>

\* const VAULT_ROOT = __dirname
VAULT_ROOT == <<nV>>

S1 == <<nS>>
S2 == <<nT>>

StartsWith(s, c) == Len(s) > 0 /\ s[1] = c

IsPrefix(p, q) == Len(p) <= Len(q) /\ SubSeq(q, 1, Len(p)) = p

IsProperPrefix(p, q) == Len(p) < Len(q) /\ SubSeq(q, 1, Len(p)) = p

\* path.dirname
Dirname(p) == IF p = <<>> THEN <<>> ELSE SubSeq(p, 1, Len(p) - 1)

Basename(p) == p[Len(p)]

RECURSIVE Normalize(_, _)
\* Lexical normalisation done by path.join / path.resolve: drops "" and ".",
\* lets ".." remove the segment before it (never above the root).
Normalize(acc, segs) ==
    IF segs = <<>> THEN acc
    ELSE LET h == Head(segs) IN
         IF h = <<>> \/ h = Dot THEN Normalize(acc, Tail(segs))
         ELSE IF h = DotDot THEN Normalize(Dirname(acc), Tail(segs))
         ELSE Normalize(Append(acc, h), Tail(segs))

\* path.join(base, rel) for an absolute base and the segments of rel
Join(base, segs) == Normalize(base, segs)

RECURSIVE CommonLen(_, _)
CommonLen(p, q) ==
    IF p = <<>> \/ q = <<>> \/ Head(p) # Head(q) THEN 0
    ELSE 1 + CommonLen(Tail(p), Tail(q))

\* path.relative(from, to) for absolute normalised paths, as segments
Relative(from, to) ==
    LET c == CommonLen(from, to) IN
    [i \in 1..(Len(from) - c) |-> DotDot] \o SubSeq(to, c + 1, Len(to))

----------------------------------------------------------------------------
(* The filesystem *)

DirEntry(m) == [kind |-> "dir", mode |-> m, target |-> <<>>]
FileEntry == [kind |-> "file", mode |-> "rw-", target |-> <<>>]
LinkEntry(t) == [kind |-> "link", mode |-> "rwx", target |-> t]

Searchable(m) == m \in {"rwx", "r-x", "--x"}
Listable(m) == m \in {"rwx", "r-x"}
Writable(m) == m = "rwx"

NoEnt == [ok |-> FALSE, path |-> <<>>]

RECURSIVE ResolveFrom(_, _, _, _, _)
\* Path resolution of the kernel: cur is the real path reached so far, rest
\* the components still to walk.  A link in the middle of a path is always
\* followed, the last component only when followLast (stat, not lstat).
ResolveFrom(f, cur, rest, followLast, fuel) ==
    IF rest = <<>> THEN [ok |-> TRUE, path |-> cur]
    ELSE IF ~(cur \in DOMAIN f /\ f[cur].kind = "dir" /\ Searchable(f[cur].mode))
    THEN NoEnt
    ELSE LET nxt == Append(cur, Head(rest)) IN
         IF nxt \notin DOMAIN f THEN NoEnt
         ELSE IF f[nxt].kind = "link" /\ (Len(rest) > 1 \/ followLast)
         THEN IF fuel = 0 THEN NoEnt
              ELSE ResolveFrom(f, <<>>, f[nxt].target \o Tail(rest),
                               followLast, fuel - 1)
         ELSE ResolveFrom(f, nxt, Tail(rest), followLast, fuel)

Stat(f, p) == ResolveFrom(f, <<>>, p, TRUE, MaxFollow)

Lstat(f, p) == ResolveFrom(f, <<>>, p, FALSE, MaxFollow)

\* fs.existsSync: true iff stat succeeds, false on every error
ExistsSync(f, p) == Stat(f, p).ok

IsDirAt(f, p) == Stat(f, p).ok /\ f[Stat(f, p).path].kind = "dir"

WithEntry(f, p, e) == [q \in DOMAIN f \cup {p} |-> IF q = p THEN e ELSE f[q]]

RECURSIVE MkdirP(_, _)
\* fs.mkdirSync(p, { recursive: true }): ok without change when p is a
\* directory, creates the missing components, fails (the call throws) when a
\* component is not a directory or the deepest existing one is not writable.
MkdirP(f, p) ==
    IF p = <<>> THEN [ok |-> TRUE, fs |-> f]
    ELSE IF Stat(f, p).ok
    THEN [ok |-> f[Stat(f, p).path].kind = "dir", fs |-> f]
    ELSE IF Lstat(f, p).ok THEN [ok |-> FALSE, fs |-> f]
    ELSE LET up == MkdirP(f, Dirname(p)) IN
         IF ~up.ok THEN [ok |-> FALSE, fs |-> f]
         ELSE LET par == Stat(up.fs, Dirname(p)) IN
              IF par.ok /\ up.fs[par.path].kind = "dir"
                 /\ Writable(up.fs[par.path].mode)
                 /\ Append(par.path, Basename(p)) \notin DOMAIN up.fs
              THEN [ok |-> TRUE,
                    fs |-> WithEntry(up.fs, Append(par.path, Basename(p)),
                                     DirEntry("rwx"))]
              ELSE [ok |-> FALSE, fs |-> up.fs]

\* fs.symlinkSync(target, linkPath, "dir") / mklink /J: fails when an entry
\* (of any kind, a dangling link included) is at linkPath, when the parent
\* is missing or not writable, or when the platform primitive fails (prim).
CreateDirLink(f, target, linkPath, prim) ==
    LET par == Stat(f, Dirname(linkPath)) IN
    IF prim = "ok" /\ linkPath # <<>> /\ par.ok /\ f[par.path].kind = "dir"
       /\ Writable(f[par.path].mode) /\ Searchable(f[par.path].mode)
       /\ Append(par.path, Basename(linkPath)) \notin DOMAIN f
    THEN [ok |-> TRUE,
          fs |-> WithEntry(f, Append(par.path, Basename(linkPath)),
                           LinkEntry(target))]
    ELSE [ok |-> FALSE, fs |-> f]

Prims == {"ok", "err"}

\* ensureLink without the early return on an existing entry
EnsureLink_NoExistsCheck(f, linkPath, targetPath, prim) ==
    LET m == MkdirP(f, Dirname(linkPath)) IN
    IF ~m.ok
    THEN [result |-> "threw", fs |-> m.fs, mkdir |-> TRUE, link |-> FALSE]
    ELSE LET s == CreateDirLink(m.fs, targetPath, linkPath, prim) IN
         [result |-> IF s.ok THEN "created" ELSE "failed",
          fs |-> s.fs, mkdir |-> TRUE, link |-> TRUE]

\* function ensureLink(linkPath, targetPath); result "threw" stands for an
\* exception leaving the function.
EnsureLink(f, linkPath, targetPath, prim) ==
    IF ExistsSync(f, linkPath)
    THEN [result |-> "exists", fs |-> f, mkdir |-> FALSE, link |-> FALSE]
    ELSE LET m == MkdirP(f, Dirname(linkPath)) IN
         IF ~m.ok
         THEN [result |-> "threw", fs |-> m.fs, mkdir |-> TRUE, link |-> FALSE]
         ELSE LET s == CreateDirLink(m.fs, targetPath, linkPath, prim) IN
              [result |-> IF s.ok THEN "created" ELSE "failed",
               fs |-> s.fs, mkdir |-> TRUE, link |-> TRUE]

\* The record kept of one ensureLink call
CallRec(ctx, f, linkPath, targetPath, r) ==
    [ctx |-> ctx, link |-> linkPath, target |-> targetPath,
     result |-> r.result, pre |-> f, post |-> r.fs,
     mkdir |-> r.mkdir, linkTried |-> r.link]

----------------------------------------------------------------------------
(* Repository discovery *)

\* fs.readdirSync(d, { withFileTypes: true }): the names in d, or an error.
\* order is the order in which the platform lists names.
Readdir(f, d, order) ==
    LET st == Stat(f, d) IN
    IF st.ok /\ f[st.path].kind = "dir" /\ Listable(f[st.path].mode)
    THEN [ok |-> TRUE,
          entries |-> SelectSeq(order, LAMBDA n : Append(st.path, n) \in DOMAIN f),
          real |-> st.path]
    ELSE [ok |-> FALSE, entries |-> <<>>, real |-> <<>>]

\* Descend without the test on the name node_modules
Descend_NoNodeModules(f, real, name) ==
    /\ f[Append(real, name)].kind = "dir"
    /\ ~StartsWith(name, ".")

\* entry.isDirectory() && !entry.name.startsWith(".") && entry.name !== "node_modules"
\* (a Dirent of a symbolic link is not a directory)
Descend(f, real, name) ==
    /\ f[Append(real, name)].kind = "dir"
    /\ ~StartsWith(name, ".")
    /\ name # NodeModules

Walked(repos) == [threw |-> FALSE, repos |-> repos]

RECURSIVE Walk(_, _, _)
RECURSIVE WalkEntries(_, _, _, _, _)
\* walk without the return after repos.push(d)
Walk_NoStop(f, d, order) ==
    LET here == IF ExistsSync(f, Append(d, DotGit)) THEN <<d>> ELSE <<>>
        rd == Readdir(f, d, order)
        below == IF ~rd.ok THEN Walked(<<>>)
                 ELSE WalkEntries(f, d, rd.real, rd.entries, order)
    IN [threw |-> below.threw, repos |-> here \o below.repos]

\* walk without the try/catch around readdirSync
Walk_NoCatch(f, d, order) ==
    IF ExistsSync(f, Append(d, DotGit)) THEN Walked(<<d>>)
    ELSE LET rd == Readdir(f, d, order) IN
         IF ~rd.ok THEN [threw |-> TRUE, repos |-> <<>>]
         ELSE WalkEntries(f, d, rd.real, rd.entries, order)

\* function walk(d) of findGitRepos: the repos it pushes, in order; threw
\* tells that an exception left the call.  The error of readdirSync is caught.
Walk(f, d, order) ==
    IF ExistsSync(f, Append(d, DotGit)) THEN Walked(<<d>>)
    ELSE LET rd == Readdir(f, d, order) IN
         IF ~rd.ok THEN Walked(<<>>)
         ELSE WalkEntries(f, d, rd.real, rd.entries, order)

\* for (const entry of entries) { ... walk(path.join(d, entry.name)) }
\* An exception in one iteration ends the loop.
WalkEntries(f, d, real, entries, order) ==
    IF entries = <<>> THEN Walked(<<>>)
    ELSE LET one == IF Descend(f, real, Head(entries))
                    THEN Walk(f, Append(d, Head(entries)), order)
                    ELSE Walked(<<>>)
         IN IF one.threw THEN one
            ELSE LET more == WalkEntries(f, d, real, Tail(entries), order) IN
                 [threw |-> more.threw, repos |-> one.repos \o more.repos]

\* function findGitRepos(dir)
FindGitRepos(f, dir, order) ==
    IF ~ExistsSync(f, dir) THEN Walked(<<>>) ELSE Walk(f, dir, order)

Range(q) == {q[i] : i \in 1..Len(q)}

----------------------------------------------------------------------------
(* URL parsing; a string is a sequence of characters *)

HasPrefix(str, pre) == Len(pre) <= Len(str) /\ SubSeq(str, 1, Len(pre)) = pre

EndsWith(str, suf) ==
    Len(suf) <= Len(str) /\ SubSeq(str, Len(str) - Len(suf) + 1, Len(str)) = suf

Drop(str, n) == SubSeq(str, n + 1, Len(str))

\* Index of the first c in str, 0 when there is none
IndexOf(str, c) ==
    IF \E i \in 1..Len(str) : str[i] = c
    THEN CHOOSE i \in 1..Len(str) : str[i] = c /\ \A j \in 1..(i - 1) : str[j] # c
    ELSE 0

\* The characters "." of a regular expression does not match
LineTerminators == {"\n", "\r"}

NoMatch == [ok |-> FALSE, host |-> <<>>, path |-> <<>>]

\* The path group without the optional (?:\.git)? after it
PathGroup_NoStrip(host, rest) ==
    IF rest = <<>> \/ \E i \in 1..Len(rest) : rest[i] \in LineTerminators
    THEN NoMatch
    ELSE [ok |-> TRUE, host |-> host, path |-> rest]

\* (.+?)(?:\.git)?$ on the rest of the url: group 2, or no match
PathGroup(host, rest) ==
    IF rest = <<>> \/ \E i \in 1..Len(rest) : rest[i] \in LineTerminators
    THEN NoMatch
    ELSE [ok |-> TRUE, host |-> host,
          path |-> IF Len(rest) > Len(DotGit) /\ EndsWith(rest, DotGit)
                   THEN SubSeq(rest, 1, Len(rest) - Len(DotGit))
                   ELSE rest]

\* A host group ([^c]+) followed by the character c and the path group
HostAndPath(str, c) ==
    LET i == IndexOf(str, c) IN
    IF i < 2 THEN NoMatch
    ELSE PathGroup(SubSeq(str, 1, i - 1), Drop(str, i))

GitAt == <<"g", "i", "t", "@">>
Http == <<"h", "t", "t", "p">>
ColonSlashSlash == <<":", "/", "/">>

\* The ssh pattern with [^@]+@ in place of git@
SshMatch_AnyUser(url) ==
    LET i == IndexOf(url, "@") IN
    IF i < 2 THEN NoMatch ELSE HostAndPath(Drop(url, i), ":")

\* url.match(/^git@([^:]+):(.+?)(?:\.git)?$/)
SshMatch(url) ==
    IF HasPrefix(url, GitAt) THEN HostAndPath(Drop(url, Len(GitAt)), ":")
    ELSE NoMatch

\* url.match(/^https?:\/\/([^/]+)\/(.+?)(?:\.git)?$/)
HttpsMatch(url) ==
    IF ~HasPrefix(url, Http) THEN NoMatch
    ELSE LET a == Drop(url, Len(Http))
             b == IF HasPrefix(a, <<"s">>) THEN Drop(a, 1) ELSE a
         IN IF HasPrefix(b, ColonSlashSlash)
            THEN HostAndPath(Drop(b, Len(ColonSlashSlash)), "/")
            ELSE NoMatch

RECURSIVE Split(_, _)
\* str.split(c)
Split(str, c) ==
    LET i == IndexOf(str, c) IN
    IF i = 0 THEN <<str>>
    ELSE <<SubSeq(str, 1, i - 1)>> \o Split(Drop(str, i), c)

RECURSIVE JoinWith(_, _)
\* segments.join(c)
JoinWith(segs, c) ==
    IF segs = <<>> THEN <<>>
    ELSE IF Len(segs) = 1 THEN segs[1]
    ELSE (segs[1] \o <<c>>) \o JoinWith(Tail(segs), c)

\* parseGitUrl that takes the whole url as the path when neither pattern matches
ParseGitUrl_Partial(url) ==
    LET ssh == SshMatch(url)
        https == HttpsMatch(url)
        repoPath == IF ssh.ok THEN ssh.path ELSE IF https.ok THEN https.path ELSE url
        segments == Split(repoPath, "/")
    IN [ok |-> TRUE, org |-> segments[1],
        projectPath |-> JoinWith(Tail(segments), "/")]

\* function parseGitUrl(url); ok = FALSE stands for process.exit(1)
ParseGitUrl(url) ==
    LET ssh == SshMatch(url)
        https == HttpsMatch(url)
    IN IF ~ssh.ok /\ ~https.ok
       THEN [ok |-> FALSE, org |-> <<>>, projectPath |-> <<>>]
       ELSE LET repoPath == IF ssh.ok THEN ssh.path ELSE https.path
                segments == Split(repoPath, "/")
            IN [ok |-> TRUE, org |-> segments[1],
                projectPath |-> JoinWith(Tail(segments), "/")]

\* path.join(base, str) for an absolute base and a path given as a string
PathJoin(base, str) == Join(base, Split(str, "/"))

----------------------------------------------------------------------------
(* Filesystems the runs start from *)

\* The filesystem holding exactly the <<path, entry>> pairs of S
FsOf(S) == [p \in {e[1] : e \in S} |-> (CHOOSE e \in S : e[1] = p)[2]]

\* A repository at path p: a directory with a .git directory in it
RepoAt(p) == {<<p, DirEntry("rwx")>>, <<Append(p, DotGit), DirEntry("rwx")>>}

Skeleton == {<<(<<>>), DirEntry("rwx")>>, <<VAULT_ROOT, DirEntry("rwx")>>,
             <<S1, DirEntry("rwx")>>}

\* What is at VAULT_ROOT/a before the run
VaultA(k) ==
    CASE k = "none" -> {}
      [] k = "file" -> {<<(<<nV, nA>>), FileEntry>>}
      [] k = "dir" -> {<<(<<nV, nA>>), DirEntry("rwx")>>}
      [] k = "good" -> {<<(<<nV, nA>>), LinkEntry(<<nS, nA>>)>>}
      [] k = "other" -> {<<(<<nV, nA>>), LinkEntry(<<nS, nG>>)>>}
      [] k = "dangling" -> {<<(<<nV, nA>>), LinkEntry(<<nS, nZ>>)>>}

VaultAKinds == {"none", "file", "dir", "good", "other", "dangling"}

\* What is at VAULT_ROOT/g before the run
VaultG(k) ==
    CASE k = "none" -> {}
      [] k = "file" -> {<<(<<nV, nG>>), FileEntry>>}
      [] k = "dir" -> {<<(<<nV, nG>>), DirEntry("rwx")>>}
      [] k = "rodir" -> {<<(<<nV, nG>>), DirEntry("r-x")>>}

VaultGKinds == {"none", "file", "dir", "rodir"}

LinkInitFS ==
    {FsOf(Skeleton \cup RepoAt(<<nS, nA>>) \cup RepoAt(<<nS, nG, nB>>)
          \cup {<<(<<nS, nG>>), DirEntry("rwx")>>} \cup VaultA(ka) \cup VaultG(kg)) :
       ka \in VaultAKinds, kg \in VaultGKinds}

\* Arguments of the direct ensureLink calls
LinkPaths == {<<nV, nA>>, <<nV, nG, nB>>, <<nV, nX, nB>>}
TargetPaths == {<<nS, nA>>, <<nS, nZ>>}

NoFound == [called |-> FALSE, root |-> <<>>, threw |-> FALSE, repos |-> <<>>]
NoOverride == [given |-> FALSE, value |-> <<>>]
\* No direct parseGitUrl call was made
NoParse == [called |-> FALSE, url |-> <<>>, ok |-> FALSE, org |-> <<>>,
            projectPath |-> <<>>]

\* cmdStatus did not run
NoStatus == [called |-> FALSE, pre |-> << >>, repos |-> <<>>, marks |-> <<>>,
             ok |-> 0, missing |-> 0, total |-> 0]

NoAdd == [url |-> <<>>, override |-> NoOverride, projectPath |-> <<>>,
          clonePath |-> <<>>, vaultLink |-> <<>>]

\* The process before anything ran
Fresh(at) ==
    /\ pc = at
    /\ cmd = "none"
    /\ calls = <<>>
    /\ found = NoFound
    /\ allRepos = <<>>
    /\ idx = 0
    /\ created = 0
    /\ trace = <<>>
    /\ out = <<>>
    /\ add = NoAdd
    /\ exitCode = -1
    /\ parseRes = NoParse
    /\ status = NoStatus
    /\ history = <<>>

\* vault.js loaded with require(): nothing runs, the exports are called
InitLink ==
    /\ fs \in LinkInitFS
    /\ srcDirs = <<S1>>
    /\ Fresh("lib")

\* A direct call ensureLink(linkPath, targetPath) of the exported function
CallEnsureLink(linkPath, targetPath, prim) ==
    /\ pc = "lib"
    /\ Len(calls) < MaxCalls
    /\ LET r == EnsureLink(fs, linkPath, targetPath, prim) IN
       /\ fs' = r.fs
       /\ calls' = Append(calls, CallRec("direct", fs, linkPath, targetPath, r))
    /\ UNCHANGED <<parseRes, status, history>>
    /\ UNCHANGED <<srcDirs, pc, cmd, found, allRepos, idx, created, trace, out,
                   add, exitCode>>

NextLink == \E l \in LinkPaths, t \in TargetPaths, prim \in Prims :
                CallEnsureLink(l, t, prim)

SpecLink == InitLink /\ [][NextLink]_vars

----------------------------------------------------------------------------
(* Direct calls of findGitRepos over generated source trees *)

\* The directories a generated tree may have below its root, relative to it
RelDirs == {<<nA>>, <<nA, nB>>, <<nG>>, <<nG, nB>>, <<NodeModules>>,
            <<NodeModules, nH>>, <<nHid>>, <<nHid, nA>>}

TreeShapes ==
    {D \in SUBSET RelDirs :
        /\ Cardinality(D) <= MaxDirs
        /\ \A p \in D : Len(p) = 1 \/ Dirname(p) \in D}

GitSets(D) == {G \in SUBSET (D \cup {<<>>}) : Cardinality(G) <= MaxGit}

\* At most one directory of the tree has restricted permissions
Restrictions(D) ==
    {<<(<<>>), "rwx">>} \cup {<<p, m>> : p \in D, m \in {"--x", "---"}}

\* A regular file and a symbolic link to a directory beside the directories
Extras(root) == {<<Append(root, nF), FileEntry>>,
                 <<Append(root, nL), LinkEntry(Append(root, nA))>>}

Tree(root, D, G, r, x) ==
    {<<root \o p, DirEntry(IF r[1] = p /\ p # <<>> THEN r[2] ELSE "rwx")>> :
        p \in D \cup {<<>>}}
    \cup {<<(root \o p) \o <<DotGit>>, DirEntry("rwx")>> : p \in G}
    \cup (IF x THEN Extras(root) ELSE {})

\* Scenario A: repoA/.git, group/repoB/.git and node_modules/hidden/.git
ScenarioA ==
    FsOf(Skeleton \cup RepoAt(<<nS, nA>>) \cup {<<(<<nS, nG>>), DirEntry("rwx")>>}
         \cup RepoAt(<<nS, nG, nB>>)
         \cup {<<(<<nS, NodeModules>>), DirEntry("rwx")>>}
         \cup RepoAt(<<nS, NodeModules, nH>>))

TreesAt(root) ==
    UNION {UNION {{Tree(root, D, G, r, x) : r \in Restrictions(D), x \in BOOLEAN} :
                     G \in GitSets(D)} : D \in TreeShapes}

WalkInitFS == {ScenarioA} \cup {FsOf(Skeleton \cup t) : t \in TreesAt(S1)}

\* Orders in which readdirSync may list the names
NameOrder == <<nA, nB, nF, nG, nH, nL, nS, nT, nV, nX, nZ, nGroup, nProject,
               NodeModules, nHid, DotGit>>
Reverse(q) == [i \in 1..Len(q) |-> q[Len(q) + 1 - i]]
ReaddirOrders == {NameOrder, Reverse(NameOrder)}

\* The roots findGitRepos is called with: directories, a missing path, a
\* regular file, a symbolic link
WalkRoots == {S1, <<nS, nA>>, <<nS, nG>>, <<nS, NodeModules>>, <<nS, nHid>>,
              <<nS, nZ>>, <<nS, nF>>, <<nS, nL>>}

InitWalk ==
    /\ fs \in WalkInitFS
    /\ srcDirs = <<S1>>
    /\ Fresh("lib")

\* A direct call findGitRepos(root) of the exported function
CallFindGitRepos(root, order) ==
    /\ pc = "lib"
    /\ ~found.called
    /\ LET r == FindGitRepos(fs, root, order) IN
       found' = [called |-> TRUE, root |-> root, threw |-> r.threw,
                 repos |-> r.repos]
    /\ UNCHANGED <<parseRes, status, history>>
    /\ UNCHANGED <<fs, srcDirs, pc, cmd, calls, allRepos, idx, created, trace,
                   out, add, exitCode>>

NextWalk == \E root \in WalkRoots, order \in ReaddirOrders :
                CallFindGitRepos(root, order)

SpecWalk == InitWalk /\ [][NextWalk]_vars

----------------------------------------------------------------------------
(* The commands: one process runs one command *)

Ev(ev, path, target, res) == [ev |-> ev, path |-> path, target |-> target, res |-> res]

\* One line of console output: console.log / console.warn / console.error
Line(level, topic) == [level |-> level, topic |-> topic]

\* gitExec(cmd): true iff the git process succeeded
GitResult(ok) == IF ok THEN "ok" ELSE "fail"

RECURSIVE CollectRepos(_, _, _)
\* for (const srcDir of srcDirs) for (const repoPath of findGitRepos(srcDir))
\*     allRepos.push({ repoPath, srcDir })
CollectRepos(f, dirs, order) ==
    IF dirs = <<>> THEN <<>>
    ELSE LET repos == FindGitRepos(f, Head(dirs), order).repos IN
         [i \in 1..Len(repos) |-> [repoPath |-> repos[i], srcDir |-> Head(dirs)]]
         \o CollectRepos(f, Tail(dirs), order)

\* const linkPath = path.join(VAULT_ROOT, path.relative(srcDir, repoPath))
LinkPathOf(r) == Join(VAULT_ROOT, Relative(r.srcDir, r.repoPath))

\* cmdPull up to the loop: pull of the vault, discovery, the empty case
PullStart(vaultOk, order) ==
    /\ pc = "main"
    /\ cmd' = "pull"
    /\ trace' = <<Ev("pull", VAULT_ROOT, <<>>, GitResult(vaultOk))>>
    /\ allRepos' = CollectRepos(fs, srcDirs, order)
    /\ IF allRepos' = <<>>
       THEN /\ out' = <<Line("log", "banner"), Line("log", "norepos")>>
            /\ pc' = "done"
            /\ exitCode' = 0
            /\ UNCHANGED idx
       ELSE /\ out' = <<Line("log", "banner")>>
            /\ pc' = "pull_loop"
            /\ idx' = 1
            /\ UNCHANGED exitCode
    /\ UNCHANGED <<parseRes, status, history>>
    /\ UNCHANGED <<fs, srcDirs, calls, found, created, add>>

\* One iteration of the loop of cmdPull; an exception of ensureLink is not
\* caught and ends the process.
PullRepo(ok, prim) ==
    /\ pc = "pull_loop"
    /\ idx <= Len(allRepos)
    /\ LET repo == allRepos[idx]
           linkPath == LinkPathOf(repo)
           r == EnsureLink(fs, linkPath, repo.repoPath, prim)
       IN /\ fs' = r.fs
          /\ calls' = Append(calls, CallRec("pull", fs, linkPath, repo.repoPath, r))
          /\ trace' = trace \o <<Ev("pull", repo.repoPath, <<>>, GitResult(ok)),
                                 Ev("link", linkPath, repo.repoPath, r.result)>>
          /\ out' = out \o <<Line("log", "progress")>>
                        \o (IF ok THEN <<>> ELSE <<Line("warn", "sync")>>)
                        \o (IF r.result = "created" THEN <<Line("log", "link")>>
                            ELSE <<>>)
          /\ IF r.result = "threw"
             THEN pc' = "crashed" /\ exitCode' = 1 /\ UNCHANGED <<idx, created>>
             ELSE /\ idx' = idx + 1
                  /\ created' = IF r.result = "created" THEN created + 1 ELSE created
                  /\ UNCHANGED <<pc, exitCode>>
    /\ UNCHANGED <<parseRes, status, history>>
    /\ UNCHANGED <<srcDirs, cmd, found, allRepos, add>>

\* The summary line of cmdPull
PullSummary ==
    /\ pc = "pull_loop"
    /\ idx > Len(allRepos)
    /\ out' = Append(out, Line("log", "summary"))
    /\ pc' = "done"
    /\ exitCode' = 0
    /\ UNCHANGED <<parseRes, status, history>>
    /\ UNCHANGED <<fs, srcDirs, cmd, calls, found, allRepos, idx, created, trace,
                   add>>

\* const clonePath = path.join(cloneBase, parsed.projectPath), cloneBase = srcDirs[0]
ClonePath(dirs, projectPath) == PathJoin(dirs[1], projectPath)

\* vaultLink that ignores the --link override
VaultLink_IgnoreOverride(override, projectPath) == projectPath

\* const vaultLink = linkOverride || parsed.projectPath
VaultLink(override, projectPath) ==
    IF override.given /\ override.value # <<>> THEN override.value
    ELSE projectPath

\* cmdAdd up to the printed plan; a url that does not parse ends the process
AddStart(url, override) ==
    /\ pc = "main"
    /\ cmd' = "add"
    /\ LET parsed == ParseGitUrl(url) IN
       IF ~parsed.ok
       THEN /\ out' = <<Line("error", "parse")>>
            /\ pc' = "done"
            /\ exitCode' = 1
            /\ add' = [NoAdd EXCEPT !.url = url, !.override = override]
       ELSE /\ out' = <<Line("log", "plan")>>
            /\ pc' = "add_clone"
            /\ add' = [url |-> url, override |-> override,
                       projectPath |-> parsed.projectPath,
                       clonePath |-> ClonePath(srcDirs, parsed.projectPath),
                       vaultLink |-> VaultLink(override, parsed.projectPath)]
            /\ UNCHANGED exitCode
    /\ UNCHANGED <<parseRes, status, history>>
    /\ UNCHANGED <<fs, srcDirs, calls, found, allRepos, idx, created, trace>>

\* git clone succeeded: the working copy is at clonePath
Cloned(f, clonePath) ==
    LET real == Append(Stat(f, Dirname(clonePath)).path, Basename(clonePath)) IN
    WithEntry(WithEntry(f, real, DirEntry("rwx")), Append(real, DotGit),
              DirEntry("rwx"))

\* cmdAdd without the process.exit(1) after a failed clone
AddClone_NoExit(ok) ==
    /\ pc = "add_clone"
    /\ IF ExistsSync(fs, add.clonePath)
       THEN /\ trace' = Append(trace, Ev("pull", add.clonePath, <<>>, GitResult(ok)))
            /\ out' = Append(out, Line("log", "sync"))
            /\ pc' = "add_link"
            /\ UNCHANGED <<fs, exitCode>>
       ELSE LET m == MkdirP(fs, Dirname(add.clonePath)) IN
            IF ~m.ok
            THEN /\ pc' = "crashed"
                 /\ exitCode' = 1
                 /\ fs' = m.fs
                 /\ out' = Append(out, Line("log", "clone"))
                 /\ UNCHANGED trace
            ELSE /\ trace' = Append(trace, Ev("clone", add.clonePath, <<>>,
                                               GitResult(ok)))
                 /\ fs' = IF ok THEN Cloned(m.fs, add.clonePath) ELSE m.fs
                 /\ out' = Append(out, Line("log", "clone"))
                 /\ pc' = "add_link"
                 /\ UNCHANGED exitCode
    /\ UNCHANGED <<parseRes, status, history>>
    /\ UNCHANGED <<srcDirs, cmd, calls, found, allRepos, idx, created, add>>

\* cmdAdd: pull of the existing working copy, or mkdir and clone
AddClone(ok) ==
    /\ pc = "add_clone"
    /\ IF ExistsSync(fs, add.clonePath)
       THEN /\ trace' = Append(trace, Ev("pull", add.clonePath, <<>>, GitResult(ok)))
            /\ out' = Append(out, Line("log", "sync"))
            /\ pc' = "add_link"
            /\ UNCHANGED <<fs, exitCode>>
       ELSE LET m == MkdirP(fs, Dirname(add.clonePath)) IN
            IF ~m.ok
            THEN /\ pc' = "crashed"
                 /\ exitCode' = 1
                 /\ fs' = m.fs
                 /\ out' = Append(out, Line("log", "clone"))
                 /\ UNCHANGED trace
            ELSE /\ trace' = Append(trace, Ev("clone", add.clonePath, <<>>,
                                               GitResult(ok)))
                 /\ IF ok
                    THEN /\ fs' = Cloned(m.fs, add.clonePath)
                         /\ out' = Append(out, Line("log", "clone"))
                         /\ pc' = "add_link"
                         /\ UNCHANGED exitCode
                    ELSE /\ fs' = m.fs
                         /\ out' = out \o <<Line("log", "clone"), Line("error", "clone")>>
                         /\ pc' = "done"
                         /\ exitCode' = 1
    /\ UNCHANGED <<parseRes, status, history>>
    /\ UNCHANGED <<srcDirs, cmd, calls, found, allRepos, idx, created, add>>

\* cmdAdd: the link and the final report
AddLink(prim) ==
    /\ pc = "add_link"
    /\ LET linkAbsolute == PathJoin(VAULT_ROOT, add.vaultLink)
           r == EnsureLink(fs, linkAbsolute, add.clonePath, prim)
       IN /\ fs' = r.fs
          /\ calls' = Append(calls, CallRec("add", fs, linkAbsolute, add.clonePath, r))
          /\ trace' = Append(trace, Ev("link", linkAbsolute, add.clonePath, r.result))
          /\ CASE r.result = "threw" ->
                    /\ pc' = "crashed"
                    /\ exitCode' = 1
                    /\ UNCHANGED out
               [] r.result = "failed" ->
                    /\ pc' = "done"
                    /\ exitCode' = 1
                    /\ out' = out \o <<Line("error", "link"), Line("error", "manual")>>
               [] OTHER ->
                    /\ pc' = "done"
                    /\ exitCode' = 0
                    /\ out' = out \o <<Line("log", "link"), Line("log", "done")>>
    /\ UNCHANGED <<parseRes, status, history>>
    /\ UNCHANGED <<srcDirs, cmd, found, allRepos, idx, created, add>>

\* cmdStatus: discovery over every source root, one line and one counter
\* step for each repository, the summary line; nothing is written
CmdStatus(order) ==
    /\ pc = "main"
    /\ cmd' = "status"
    /\ LET repos == CollectRepos(fs, srcDirs, order)
           linked == {i \in 1..Len(repos) : ExistsSync(fs, LinkPathOf(repos[i]))}
           marks == [i \in 1..Len(repos) |-> IF i \in linked THEN "OK" ELSE "--"]
       IN /\ status' = [called |-> TRUE, pre |-> fs, repos |-> repos,
                        marks |-> marks, ok |-> Cardinality(linked),
                        missing |-> Len(repos) - Cardinality(linked),
                        total |-> Len(repos)]
          /\ out' = <<Line("log", "sources")>>
                        \o [i \in 1..Len(repos) |-> Line("log", marks[i])]
                        \o <<Line("log", "summary")>>
    /\ pc' = "done"
    /\ exitCode' = 0
    /\ UNCHANGED <<fs, srcDirs, calls, found, allRepos, idx, created, trace, add,
                   parseRes, history>>

\* Source trees and vault contents the commands start from
Src1Layouts ==
    {{},
     RepoAt(<<nS, nA>>),
     RepoAt(<<nS, nA>>) \cup {<<(<<nS, nG>>), DirEntry("rwx")>>}
         \cup RepoAt(<<nS, nG, nB>>)}

Src2Layouts == {{}, RepoAt(<<nT, nA>>)}

CmdInitFS ==
    {FsOf(Skeleton \cup {<<S2, DirEntry("rwx")>>} \cup l1 \cup l2
          \cup VaultA(ka) \cup VaultG(kg)) :
        l1 \in Src1Layouts, l2 \in Src2Layouts,
        ka \in {"none", "good", "dangling", "file"},
        kg \in {"none", "file", "rodir"}}

\* SOURCES of .env
SrcConfigs == {<<S1>>, <<S1, S2>>}

\* git@github.com:org/group/project.git
UrlScenarioB ==
    <<"g", "i", "t", "@", "g", "i", "t", "h", "u", "b", ".", "c", "o", "m", ":",
      "o", "r", "g", "/">> \o nGroup \o <<"/">> \o nProject \o DotGit

\* git@h:o/a.git
UrlA == <<"g", "i", "t", "@", "h", ":", "o", "/", "a">> \o DotGit

\* https://h/o/g/b
UrlGB == <<"h", "t", "t", "p", "s", ":", "/", "/", "h", "/", "o", "/", "g", "/", "b">>

\* git@h:o.git
UrlOrgOnly == <<"g", "i", "t", "@", "h", ":", "o">> \o DotGit

\* h/o/a
UrlBad == <<"h", "/", "o", "/", "a">>

\* git@h
UrlNoColon == <<"g", "i", "t", "@", "h">>

\* git@:o/a
UrlNoHost == <<"g", "i", "t", "@", ":", "o", "/", "a">>

\* https://h/
UrlNoPath == <<"h", "t", "t", "p", "s", ":", "/", "/", "h", "/">>

Urls == {UrlScenarioB, UrlA, UrlGB, UrlOrgOnly, UrlBad, UrlNoColon, UrlNoHost,
         UrlNoPath}

\* --link <p>: absent, the empty string, x/b
Overrides == {NoOverride, [given |-> TRUE, value |-> <<>>],
              [given |-> TRUE, value |-> <<"x", "/", "b">>]}

\* node vault.js <command>: the configuration is loaded, no command ran yet
Init ==
    /\ fs \in CmdInitFS
    /\ srcDirs \in SrcConfigs
    /\ Fresh("main")

Next ==
    \/ \E vaultOk \in BOOLEAN, order \in ReaddirOrders : PullStart(vaultOk, order)
    \/ \E ok \in BOOLEAN, prim \in Prims : PullRepo(ok, prim)
    \/ PullSummary
    \/ \E url \in Urls, override \in Overrides : AddStart(url, override)
    \/ \E ok \in BOOLEAN : AddClone(ok)
    \/ \E prim \in Prims : AddLink(prim)
    \/ \E order \in ReaddirOrders : CmdStatus(order)

Spec == Init /\ [][Next]_vars

----------------------------------------------------------------------------
(* Invocations of pull and status one after the other on one filesystem *)

\* Number of invocations in a row
MaxRuns == 3

\* What an invocation that ended leaves behind for the claims: the command,
\* how the process ended, the results of its ensureLink calls, its counters
RunSummary ==
    [cmd |-> cmd, ended |-> pc, repos |-> Len(allRepos),
     results |-> [i \in 1..Len(calls) |-> calls[i].result],
     created |-> created, missing |-> status.missing]

\* The process has ended; node vault.js is started again on the filesystem
\* the last invocation left, with the same .env
NextRun ==
    /\ pc \in {"done", "crashed"}
    /\ Len(history) + 1 < MaxRuns
    /\ history' = Append(history, RunSummary)
    /\ pc' = "main"
    /\ cmd' = "none"
    /\ calls' = <<>>
    /\ allRepos' = <<>>
    /\ idx' = 0
    /\ created' = 0
    /\ trace' = <<>>
    /\ out' = <<>>
    /\ exitCode' = -1
    /\ status' = NoStatus
    /\ UNCHANGED <<fs, srcDirs, found, add, parseRes>>

NextRuns ==
    \/ \E vaultOk \in BOOLEAN, order \in ReaddirOrders : PullStart(vaultOk, order)
    \/ \E ok \in BOOLEAN, prim \in Prims : PullRepo(ok, prim)
    \/ PullSummary
    \/ \E order \in ReaddirOrders : CmdStatus(order)
    \/ NextRun

SpecRuns == Init /\ [][NextRuns]_vars

----------------------------------------------------------------------------
(* Direct calls of parseGitUrl over generated identifiers *)

\* Longest path, in segments, of a generated identifier
MaxSegs == 2

\* The user names before "@": git, bob
ParseUsers == {<<"g", "i", "t">>, <<"b", "o", "b">>}

\* The hosts: h, h.io, h:1
ParseHosts == {<<"h">>, <<"h", ".", "i", "o">>, <<"h", ":", "1">>}

\* The path segments: o, a, a.git, a with a line feed, the empty segment
ParseSegments == {<<"o">>, <<"a">>, <<"a">> \o DotGit, <<"a", "\n">>, <<>>}

\* The paths, as lists of segments org, seg1, ..., segN
ParseSegLists == UNION {[1..n -> ParseSegments] : n \in 1..MaxSegs}

PathOf(segs) == JoinWith(segs, "/")

SshForms == {"ssh", "ssh.git"}
HttpsForms == {"https", "https.git"}

\* user@h:path, user@h:path.git, https://h/path, https://h/path.git
UrlOf(form, user, h, path) ==
    CASE form = "ssh" -> user \o <<"@">> \o h \o <<":">> \o path
      [] form = "ssh.git" -> user \o <<"@">> \o h \o <<":">> \o path \o DotGit
      [] form = "https" -> Http \o <<"s">> \o ColonSlashSlash \o h \o <<"/">> \o path
      [] form = "https.git" ->
            Http \o <<"s">> \o ColonSlashSlash \o h \o <<"/">> \o path \o DotGit

ParseUrls ==
    {UrlOf(form, user, h, PathOf(segs)) :
        form \in SshForms, user \in ParseUsers, h \in ParseHosts,
        segs \in ParseSegLists}
    \cup {UrlOf(form, <<>>, h, PathOf(segs)) :
        form \in HttpsForms, h \in ParseHosts, segs \in ParseSegLists}
    \cup Urls

\* vault.js loaded with require(): nothing runs, the exports are called
InitParse ==
    /\ fs = FsOf(Skeleton)
    /\ srcDirs = <<S1>>
    /\ Fresh("lib")

\* A direct call parseGitUrl(url) of the exported function; a call that ends
\* in process.exit(1) returns nothing
CallParseGitUrl(url) ==
    /\ pc = "lib"
    /\ ~parseRes.called
    /\ LET r == ParseGitUrl(url) IN
       parseRes' = [called |-> TRUE, url |-> url, ok |-> r.ok, org |-> r.org,
                    projectPath |-> r.projectPath]
    /\ UNCHANGED <<fs, srcDirs, pc, cmd, calls, found, allRepos, idx, created,
                   trace, out, add, exitCode, status, history>>

NextParse == \E url \in ParseUrls : CallParseGitUrl(url)

SpecParse == InitParse /\ [][NextParse]_vars

----------------------------------------------------------------------------
(* Claims about ensureLink *)

\* C1 (as claimed): whenever an entry of any kind is at the link path (a
\* regular file, a directory, a link to the intended or to another target, a
\* link whose target is missing), ensureLink returns "exists", leaves the
\* filesystem as it was, creates no parent directory and attempts no link.
C1_ExistingEntryIsNoOp ==
    \A i \in 1..Len(calls) :
        Lstat(calls[i].pre, calls[i].link).ok =>
            /\ calls[i].result = "exists"
            /\ calls[i].post = calls[i].pre
            /\ ~calls[i].mkdir
            /\ ~calls[i].linkTried

\* C2 (as claimed): for every pair of arguments, a call that returns
\* "created" leaves a traversable link at linkPath that resolves to
\* targetPath, and the call that follows it with the same arguments returns
\* "exists" and changes nothing.
LinkNowAt(c) ==
    /\ Lstat(c.post, c.link).ok
    /\ c.post[Lstat(c.post, c.link).path].kind = "link"
    /\ c.post[Lstat(c.post, c.link).path].target = c.target
    /\ Stat(c.post, c.link).ok
    /\ Stat(c.post, c.link) = Stat(c.post, c.target)

SecondIsNoOp(i) ==
    (i < Len(calls) /\ calls[i + 1].link = calls[i].link
        /\ calls[i + 1].target = calls[i].target) =>
        /\ calls[i + 1].result = "exists"
        /\ calls[i + 1].post = calls[i + 1].pre

C2_CreatedThenExists ==
    \A i \in 1..Len(calls) :
        calls[i].result = "created" => LinkNowAt(calls[i]) /\ SecondIsNoOp(i)

\* C2 (amended): the same for every pair whose targetPath exists as a
\* directory when the first call is made.
C2_CreatedThenExists_TargetPresent ==
    \A i \in 1..Len(calls) :
        (calls[i].result = "created" /\ IsDirAt(calls[i].pre, calls[i].target))
            => LinkNowAt(calls[i]) /\ SecondIsNoOp(i)

C2_Witness ==
    \E i \in 1..Len(calls) :
        /\ calls[i].result = "created"
        /\ IsDirAt(calls[i].pre, calls[i].target)
        /\ i < Len(calls)
        /\ calls[i + 1].link = calls[i].link
        /\ calls[i + 1].target = calls[i].target
        /\ calls[i + 1].result = "exists"

\* C3 (as claimed): ensureLink never throws; every failure of a creation
\* step is returned as "failed".
C3_NeverThrows == \A i \in 1..Len(calls) : calls[i].result # "threw"

----------------------------------------------------------------------------
(* Claims about findGitRepos *)

\* C6: the collection findGitRepos returns has no duplicates and no two
\* paths of which one is an ancestor of the other, also when a recorded
\* repository has further .git entries beneath it.
C6_NoDuplicateNoNesting ==
    found.called =>
        \A i, j \in 1..Len(found.repos) :
            i # j => /\ found.repos[i] # found.repos[j]
                     /\ ~IsProperPrefix(found.repos[i], found.repos[j])

C6_Witness ==
    /\ found.called
    /\ Len(found.repos) >= 2
    /\ \E r \in Range(found.repos) : \E p \in DOMAIN fs :
          Len(p) > Len(r) + 1 /\ IsProperPrefix(r, p) /\ Basename(p) = DotGit

ExcludedName(n) == n = NodeModules \/ StartsWith(n, ".")

ScenarioAResult ==
    (fs = ScenarioA /\ found.root = S1) =>
        Range(found.repos) = {<<nS, nA>>, <<nS, nG, nB>>}

\* C7 (as claimed): for every root, no returned path lies beneath a
\* directory named node_modules or beneath one whose name starts with ".";
\* in scenario A the result is exactly {repoA, group/repoB}.
C7_NothingBeneathExcluded ==
    found.called =>
        /\ \A r \in Range(found.repos) : \A k \in 1..(Len(r) - 1) :
              ~ExcludedName(r[k])
        /\ ScenarioAResult

\* C7 (amended): no returned path lies beneath a directory below the root
\* that is named node_modules or whose name starts with "." (the names of
\* the root and of its ancestors are not examined); scenario A as claimed.
C7_NothingBeneathExcludedBelowRoot ==
    found.called =>
        /\ \A r \in Range(found.repos) :
              \A k \in (Len(found.root) + 1)..(Len(r) - 1) : ~ExcludedName(r[k])
        /\ ScenarioAResult

C7_Witness ==
    /\ found.called
    /\ found.root = S1
    /\ found.repos # <<>>
    /\ \E p \in DOMAIN fs :
          /\ Len(p) = 4
          /\ Basename(p) = DotGit
          /\ ExcludedName(p[2])

\* The lexical paths below root that name an entry of the filesystem
Candidates(f, root) ==
    LET rr == Stat(f, root) IN
    IF ~rr.ok THEN {}
    ELSE {root \o SubSeq(p, Len(rr.path) + 1, Len(p)) :
             p \in {q \in DOMAIN f : IsPrefix(rr.path, q)}}

PlainDir(f, p) == Lstat(f, p).ok /\ f[Lstat(f, p).path].kind = "dir"

\* A directory the walk can list and that is no repository
OpenDir(f, p) ==
    /\ IsDirAt(f, p)
    /\ Listable(f[Stat(f, p).path].mode)
    /\ ~ExistsSync(f, Append(p, DotGit))

\* d is a repository reachable from root through readable, non-excluded
\* directories that are no repositories themselves
ReachableRepo(f, root, d) ==
    /\ IsPrefix(root, d)
    /\ ExistsSync(f, Append(d, DotGit))
    /\ \A k \in Len(root)..(Len(d) - 1) : OpenDir(f, SubSeq(d, 1, k))
    /\ \A k \in (Len(root) + 1)..Len(d) :
          ~ExcludedName(d[k]) /\ PlainDir(f, SubSeq(d, 1, k))

\* C8: findGitRepos never fails: a root that does not exist gives the empty
\* collection, an unreadable directory is skipped, and every repository
\* reachable through readable, non-excluded directories is returned.
C8_NeverFailsSkipsUnreadable ==
    found.called =>
        /\ ~found.threw
        /\ (~ExistsSync(fs, found.root) => found.repos = <<>>)
        /\ \A d \in Candidates(fs, found.root) :
              ReachableRepo(fs, found.root, d) => d \in Range(found.repos)

C8_Witness ==
    /\ found.called
    /\ found.repos # <<>>
    /\ \E q \in Candidates(fs, found.root) :
          /\ Len(q) = Len(found.root) + 1
          /\ PlainDir(fs, q)
          /\ ~ExcludedName(Basename(q))
          /\ ~ExistsSync(fs, Append(q, DotGit))
          /\ ~Listable(fs[Stat(fs, q).path].mode)

----------------------------------------------------------------------------
(* Claims about the commands *)

PullEnded == cmd = "pull" /\ pc \in {"done", "crashed"}

\* C4 (as claimed): pull-all never aborts because of one repository: when it
\* ends, it has reached its final summary and has made, for every discovered
\* repository in turn, a synchronize attempt and then a link attempt.
C4_PullNeverAborts ==
    PullEnded =>
        /\ pc = "done"
        /\ out[Len(out)].topic \in {"summary", "norepos"}
        /\ Len(trace) = 1 + 2 * Len(allRepos)
        /\ \A i \in 1..Len(allRepos) :
              /\ trace[2 * i].ev = "pull"
              /\ trace[2 * i].path = allRepos[i].repoPath
              /\ trace[2 * i + 1].ev = "link"
              /\ trace[2 * i + 1].target = allRepos[i].repoPath

\* C5 (as claimed): no silent failure in pull-all: when the link
\* reconciliation of a repository returns "failed", a warning about the link
\* is printed.
C5_LinkFailureWarned ==
    (\E i \in 1..Len(calls) : calls[i].ctx = "pull" /\ calls[i].result = "failed")
        => \E k \in 1..Len(out) :
              out[k].level \in {"warn", "error"} /\ out[k].topic = "link"

\* C9 (as claimed): within one pull-all run the link paths of the discovered
\* (sourceRoot, repo) pairs are pairwise distinct.
C9_LinkPathsDistinct ==
    cmd = "pull" =>
        \A i, j \in 1..Len(allRepos) :
            i # j => LinkPathOf(allRepos[i]) # LinkPathOf(allRepos[j])

\* What add-one did: the working copy it pulled or cloned, the link it made
AddUsed(cloneDest, linkAt) ==
    /\ \A k \in 1..Len(trace) :
          /\ trace[k].ev \in {"pull", "clone"} => trace[k].path = cloneDest
          /\ trace[k].ev = "link" =>
                trace[k].path = linkAt /\ trace[k].target = cloneDest
    /\ \A i \in 1..Len(calls) :
          calls[i].link = linkAt /\ calls[i].target = cloneDest

ScenarioBPaths ==
    (add.url = UrlScenarioB /\ ~add.override.given) =>
        AddUsed(<<nS, nGroup, nProject>>, <<nV, nGroup, nProject>>)

\* C10 (as claimed): add-one clones into firstSourceRoot/p and links at
\* vaultRoot/o when an override o is given, at vaultRoot/p otherwise, the
\* link's target being the clone destination; scenario B.
C10_AddPaths ==
    (cmd = "add" /\ pc # "main" /\ ParseGitUrl(add.url).ok) =>
        /\ AddUsed(PathJoin(srcDirs[1], ParseGitUrl(add.url).projectPath),
                   PathJoin(VAULT_ROOT,
                            IF add.override.given THEN add.override.value
                            ELSE ParseGitUrl(add.url).projectPath))
        /\ ScenarioBPaths

\* C10 (amended): as claimed, with the link at vaultRoot/o only when the
\* override given is not the empty string; an empty override counts as none.
C10_AddPaths_NonEmptyOverride ==
    (cmd = "add" /\ pc # "main" /\ ParseGitUrl(add.url).ok) =>
        /\ AddUsed(PathJoin(srcDirs[1], ParseGitUrl(add.url).projectPath),
                   PathJoin(VAULT_ROOT,
                            IF add.override.given /\ add.override.value # <<>>
                            THEN add.override.value
                            ELSE ParseGitUrl(add.url).projectPath))
        /\ ScenarioBPaths

C10_Witness ==
    /\ cmd = "add"
    /\ pc = "done"
    /\ add.override.given
    /\ add.override.value # <<>>
    /\ \E k \in 1..Len(trace) : trace[k].ev = "clone" /\ trace[k].res = "ok"
    /\ \E i \in 1..Len(calls) : calls[i].result = "created"

CloneFailed == \E k \in 1..Len(trace) : trace[k].ev = "clone" /\ trace[k].res = "fail"

\* C11: in add-one, when nothing is at the clone destination and the clone
\* fails, the process exits with code 1 and no link reconciliation is
\* attempted; a link is attempted only when an entry exists at the clone
\* destination.
C11_NoLinkWithoutWorkingCopy ==
    cmd = "add" =>
        /\ CloneFailed =>
              /\ pc = "done"
              /\ exitCode = 1
              /\ calls = <<>>
              /\ \A k \in 1..Len(trace) : trace[k].ev # "link"
        /\ \A i \in 1..Len(calls) :
              /\ calls[i].target = add.clonePath
              /\ ExistsSync(calls[i].pre, add.clonePath)

C11_Witness ==
    /\ cmd = "add"
    /\ CloneFailed
    /\ ~ExistsSync(fs, add.clonePath)
    /\ exitCode = 1

\* The shape user-like-prefix@host:path[.git]: a non-empty prefix, "@", a
\* non-empty host, ":", a non-empty path
SshShape(str) ==
    \E i, j \in 1..Len(str) :
        /\ 1 < i /\ i + 1 < j /\ j < Len(str)
        /\ str[i] = "@" /\ str[j] = ":"

\* The shape scheme://host/path[.git]: a non-empty scheme, "://", a non-empty
\* host, "/", a non-empty path
HttpShape(str) ==
    \E i, j \in 1..Len(str) :
        /\ 1 < i /\ i + 3 < j /\ j < Len(str)
        /\ HasPrefix(Drop(str, i - 1), ColonSlashSlash)
        /\ str[j] = "/"

\* C12: for every identifier that matches neither recognised shape, parsing
\* fails and yields no (organization, project-path) pair, partial or default;
\* add-one on such an identifier exits with code 1 before any synchronize,
\* clone, directory creation or link creation.
C12_MalformedIdentifierIsFatal ==
    (cmd = "add" /\ ~SshShape(add.url) /\ ~HttpShape(add.url)) =>
        /\ pc = "done"
        /\ exitCode = 1
        /\ add.projectPath = <<>> /\ add.clonePath = <<>> /\ add.vaultLink = <<>>
        /\ trace = <<>>
        /\ calls = <<>>
        /\ fs \in CmdInitFS
        /\ \A k \in 1..Len(out) : out[k] = Line("error", "parse")

C12_Witness ==
    /\ cmd = "add"
    /\ add.url = UrlNoHost
    /\ ~SshShape(add.url) /\ ~HttpShape(add.url)
    /\ exitCode = 1

\* The pair the claims expect for the path org/seg1/.../segN
ParsedAs(segs) ==
    /\ parseRes.ok
    /\ parseRes.org = segs[1]
    /\ parseRes.projectPath = JoinWith(Tail(segs), "/")

\* C13 (as claimed): for every host h and path org/seg1/.../segN, the four
\* identifiers git@h:path, git@h:path.git, https://h/path and https://h/path.git
\* parse to the same pair (org, seg1/.../segN).
C13_FourFormsAgree ==
    \A h \in ParseHosts, segs \in ParseSegLists, form \in SshForms \cup HttpsForms :
        parseRes.called /\ parseRes.url = UrlOf(form, <<"g", "i", "t">>, h, PathOf(segs))
            => ParsedAs(segs)

\* A host with neither ":" nor "/" in it
PlainHost(h) == h # <<>> /\ \A i \in 1..Len(h) : h[i] \notin {":", "/"}

\* A non-empty path without line terminators that does not itself end in .git
PlainPath(path) ==
    /\ path # <<>>
    /\ \A i \in 1..Len(path) : path[i] \notin LineTerminators
    /\ ~EndsWith(path, DotGit)

\* C13 (amended): the same for every host that has neither ":" nor "/" in it
\* and every path that is not empty, has no line terminator and does not
\* itself end in .git.
C13_FourFormsAgree_PlainHostAndPath ==
    \A h \in ParseHosts, segs \in ParseSegLists, form \in SshForms \cup HttpsForms :
        (/\ parseRes.called
         /\ PlainHost(h) /\ PlainPath(PathOf(segs))
         /\ parseRes.url = UrlOf(form, <<"g", "i", "t">>, h, PathOf(segs)))
            => ParsedAs(segs)

C13_Witness ==
    /\ parseRes.called
    /\ parseRes.url = UrlOf("https.git", <<>>, <<"h", ".", "i", "o">>,
                            PathOf(<< <<"o">>, <<"a">> >>))
    /\ ParsedAs(<< <<"o">>, <<"a">> >>)

\* C14 (as claimed): user@host:path[.git] is recognised for any user-like
\* prefix, and parses to the first segment of path and the remaining
\* segments rejoined with "/" (stated here for the hosts and paths of the
\* amended C13 only).
C14_AnyUserParses ==
    \A user \in ParseUsers, h \in ParseHosts, segs \in ParseSegLists,
       form \in SshForms :
        (/\ parseRes.called
         /\ PlainHost(h) /\ PlainPath(PathOf(segs))
         /\ parseRes.url = UrlOf(form, user, h, PathOf(segs)))
            => ParsedAs(segs)

\* C14 (amended): user@host:path[.git] is recognised when the user is git,
\* and then parses to the first segment of path and the remaining segments
\* rejoined with "/"; with any other user the identifier is rejected.
C14_OnlyGitUserParses ==
    \A user \in ParseUsers, h \in ParseHosts, segs \in ParseSegLists,
       form \in SshForms :
        (/\ parseRes.called
         /\ PlainHost(h) /\ PlainPath(PathOf(segs))
         /\ parseRes.url = UrlOf(form, user, h, PathOf(segs)))
            => IF user = <<"g", "i", "t">> THEN ParsedAs(segs) ELSE ~parseRes.ok

C14_Witness ==
    /\ parseRes.called
    /\ parseRes.url = UrlOf("ssh.git", <<"b", "o", "b">>, <<"h">>,
                            PathOf(<< <<"o">>, <<"a">> >>))
    /\ ~parseRes.ok

\* The repositories of the status report with an entry at their link path
WithEntry15 == {i \in 1..Len(status.repos) :
                   Lstat(status.pre, LinkPathOf(status.repos[i])).ok}

\* The read-only half of C15: status-report writes nothing and runs no
\* synchronize, clone or link reconciliation.
StatusReadOnly ==
    status.called =>
        /\ fs = status.pre
        /\ trace = <<>>
        /\ calls = <<>>
        /\ exitCode = 0

\* C15: status-report is read-only (no link, directory or working copy is
\* created, removed or changed, no synchronize or clone runs), and its linked
\* and not-linked counts partition the discovered repositories by whether an
\* entry exists at vaultRoot/relativePath.
C15_StatusReadOnlyAndPartitions ==
    status.called =>
        /\ StatusReadOnly
        /\ status.total = Len(status.repos)
        /\ status.ok = Cardinality(WithEntry15)
        /\ status.missing = Len(status.repos) - Cardinality(WithEntry15)

\* Scenario C: three repositories, two of them with a link
ScenarioC ==
    /\ status.called
    /\ status.total = 3 /\ status.ok = 2 /\ status.missing = 1
    /\ Cardinality(WithEntry15) = 2

\* The invocations so far, the running one last
Runs == Append(history, RunSummary)

\* A pull-all that completed with every reconciliation "exists" or "created"
CleanPull(r) ==
    /\ r.cmd = "pull"
    /\ r.ended = "done"
    /\ Len(r.results) = r.repos
    /\ \A k \in 1..Len(r.results) : r.results[k] \in {"exists", "created"}

\* A pull-all, ended or under way, that created no link
NothingCreated(r) ==
    r.cmd = "pull" =>
        /\ r.created = 0
        /\ \A k \in 1..Len(r.results) : r.results[k] = "exists"

\* C16: after a pull-all that completed with every link reconciliation
\* "exists" or "created", an immediately following pull-all creates no link
\* (created count 0, every reconciliation "exists"), also when a
\* status-report runs in between, and that status-report reports zero
\* repositories without link.
C16_PullIdempotentForLinks ==
    \A i \in 1..(Len(Runs) - 1) :
        CleanPull(Runs[i]) =>
            /\ NothingCreated(Runs[i + 1])
            /\ Runs[i + 1].cmd = "status" =>
                  /\ Runs[i + 1].missing = 0
                  /\ i + 2 <= Len(Runs) => NothingCreated(Runs[i + 2])

C16_Witness ==
    /\ Len(history) = 2
    /\ CleanPull(history[1]) /\ history[1].created = 2
    /\ history[2].cmd = "status" /\ history[2].missing = 0
    /\ cmd = "pull" /\ pc = "done" /\ Len(calls) = history[1].repos

====
